---- MODULE Spec2Model ----
(***************************************************************************)
(* Styled-text layout engine of core/src/text_engine: placeholder          *)
(* resolution (TextSegment::get_text), greedy word wrap (build_lines) and  *)
(* tesselation (TextObject::tesselate).                                    *)
(*                                                                         *)
(* Strings are sequences of one-character strings; offsets are 0-based as  *)
(* in the source (the alphabet is ASCII, so byte offsets = char offsets;   *)
(* the one other character, EAcute, only enters as a whole replacement,    *)
(* which the scan steps over in one piece).                                *)
(* Lengths (advance, width, height) are whole numbers; every value that    *)
(* the code halves is drawn from even numbers, so f32 arithmetic on them   *)
(* is exact.                                                               *)
(***************************************************************************)
EXTENDS Integers, Sequences, FiniteSets, TLC

VARIABLES
    \* TextSegment::get_text, one call: self.template, the locals result and
    \* pos, and the position of the call
    template, result, pos, gt_pc,
    \* arguments shared by get_text, build_lines and TextObject
    variables,
    \* build_lines, one call: its arguments, the local lines, the position in
    \* the two nested loops
    text_segments, styles, max_width, lines, seg_i, words, bl_pc,
    \* history: for each Line, the tokens pushed to it (word, style_index, width)
    pushed,
    \* history: for each Line, the style indices of the line-break tokens
    \* processed while it was the last Line
    breaks,
    \* TextObject fields
    auto_line_break, size_to_fit, h_align, v_align, bounds, dirty, max_style_id,
    \* TextObject::tesselate, one call: locals and position
    t_pc, total_line_height, total_glyphs_per_style, vert_index_buffers,
    cursor_y, cursor_x, line_bottom, line_i,
    \* history: the value cursor_x is initialised with for the Line walked last
    line_start_x,
    \* the call made last, of a TextObject method or of a function that keeps
    \* no state: its name and arguments, and what it returned
    arg, ret

gtVars == <<template, result, pos, gt_pc>>
blVars == <<text_segments, styles, max_width, lines, seg_i, words, bl_pc, pushed, breaks>>
toVars == <<auto_line_break, size_to_fit, h_align, v_align, bounds, dirty, max_style_id>>
tsVars == <<t_pc, total_line_height, total_glyphs_per_style, vert_index_buffers,
           cursor_y, cursor_x, line_bottom, line_i, line_start_x>>
fnVars == <<arg, ret>>
vars == <<gtVars, variables, blVars, toVars, tsVars, fnVars>>

(***************************************************************************)
(* Strings                                                                 *)
(***************************************************************************)
\* s[from..] (0-based)
StrFrom(s, from) == SubSeq(s, from + 1, Len(s))

\* s[from..to] (0-based, to exclusive)
StrSlice(s, from, to) == SubSeq(s, from + 1, to)

\* str::find(ch): the offset of the first ch in s, or -1 for None
Find(s, ch) ==
    IF \E i \in 1..Len(s) : s[i] = ch
    THEN (CHOOSE i \in 1..Len(s) : s[i] = ch /\ \A j \in 1..(i - 1) : s[j] # ch) - 1
    ELSE -1

\* char::is_ascii_whitespace: space, tab, line feed, form feed, carriage return
IsAsciiWhitespace(ch) == ch \in {" ", "\t", "\n", "\f", "\r"}

Digits == <<"0", "1", "2", "3", "4", "5", "6", "7", "8", "9">>

RECURSIVE NatToString(_)
NatToString(n) ==
    IF n < 10 THEN <<Digits[n + 1]>>
    ELSE NatToString(n \div 10) \o <<Digits[(n % 10) + 1]>>

\* i64::to_string
IntToString(i) == IF i < 0 THEN <<"-">> \o NatToString(-i) ELSE NatToString(i)

(***************************************************************************)
(* InterpolationValue                                                      *)
(***************************************************************************)
StringValue(s) == [tag |-> "String", val |-> s]
IntegerValue(i) == [tag |-> "Integer", val |-> i]
BooleanValue(b) == [tag |-> "Boolean", val |-> b]

\* Float(f): val holds f in thousandths (the f64 nearest to val / 1000)
FloatValue(m) == [tag |-> "Float", val |-> m]

\* format!("{:.0}", f) of a float without fractional part
Fixed0(m) == IntToString(m \div 1000)

\* format!("{:.2}", f): sign, integer digits, '.', two digits; the value is
\* rounded to the nearest hundredth
Fixed2(m) ==
    LET a == IF m < 0 THEN -m ELSE m
        h == (a + 5) \div 10
    IN (IF m < 0 THEN <<"-">> ELSE <<>>)
           \o NatToString(h \div 100)
           \o <<".", Digits[((h \div 10) % 10) + 1], Digits[(h % 10) + 1]>>

\* str::trim_end_matches(ch)
RECURSIVE trim_end_matches(_, _)
trim_end_matches(s, ch) ==
    IF s # <<>> /\ s[Len(s)] = ch
    THEN trim_end_matches(SubSeq(s, 1, Len(s) - 1), ch)
    ELSE s

\* the Float arm with the two trims in the other order
FloatToString_DotFirst(m) ==
    IF m % 1000 = 0 THEN Fixed0(m)
    ELSE trim_end_matches(trim_end_matches(Fixed2(m), "."), "0")

\* the Float arm of as_string: f.fract() == 0.0 is val % 1000 = 0
FloatToString(m) ==
    IF m % 1000 = 0 THEN Fixed0(m)
    ELSE trim_end_matches(trim_end_matches(Fixed2(m), "0"), ".")

\* InterpolationValue::as_string
as_string(v) ==
    CASE v.tag = "String" -> v.val
      [] v.tag = "Integer" -> IntToString(v.val)
      [] v.tag = "Float" -> FloatToString(v.val)
      [] v.tag = "Boolean" -> IF v.val THEN <<"t", "r", "u", "e">>
                                        ELSE <<"f", "a", "l", "s", "e">>

(***************************************************************************)
(* VariableStorage: Empty, or Enum-backed (a name table and one optional    *)
(* value per name)                                                         *)
(***************************************************************************)
None == [tag |-> "None", val |-> 0]

EmptyVariableStorage == [kind |-> "Empty", names |-> <<>>, values |-> <<>>]

\* EnumVariableStorage::<T>::new: vec![None; T::COUNT]
EnumVariableStorage(names) ==
    [kind |-> "Enum", names |-> names, values |-> [i \in 1..Len(names) |-> None]]

\* VariableEnum::from_name: the slot of name (1-based), or 0 for None
from_name(names, name) ==
    IF \E i \in 1..Len(names) : names[i] = name
    THEN CHOOSE i \in 1..Len(names) : names[i] = name
    ELSE 0

\* VariableStorage::get_value: the value, or None
get_value(storage, name) ==
    IF storage.kind = "Empty" THEN None
    ELSE LET var == from_name(storage.names, name)
         IN IF var = 0 THEN None ELSE storage.values[var]

\* set_value_by_name answering true for a name without variant
set_value_by_name_AlwaysTrue(storage, name, value) ==
    IF storage.kind = "Empty" THEN [storage |-> storage, ok |-> FALSE]
    ELSE LET var == from_name(storage.names, name)
         IN IF var = 0 THEN [storage |-> storage, ok |-> TRUE]
            ELSE [storage |-> [storage EXCEPT !.values[var] = value], ok |-> TRUE]

\* VariableStorage::set_value_by_name: the storage after the call and the
\* bool it returns
set_value_by_name(storage, name, value) ==
    IF storage.kind = "Empty" THEN [storage |-> storage, ok |-> FALSE]
    ELSE LET var == from_name(storage.names, name)
         IN IF var = 0 THEN [storage |-> storage, ok |-> FALSE]
            ELSE [storage |-> [storage EXCEPT !.values[var] = value], ok |-> TRUE]

(***************************************************************************)
(* TextSegment::get_text                                                   *)
(***************************************************************************)
\* One iteration of the while loop, entered with pos < result.len().  The
\* offset find returns for result[pos..] is relative to pos, and the code
\* uses it as an offset into result.  pc is "scan" when the loop goes on and
\* "panic" when the slice result[start + 1..end] has start + 1 > end.
ScanStep(res, p, storage) ==
    LET start == Find(StrFrom(res, p), "{")
    IN IF start = -1
       THEN [result |-> res, pos |-> p, pc |-> "scan"]
       ELSE LET e == Find(StrFrom(res, start), "}")
            IN IF e = -1
               THEN [result |-> res, pos |-> p + 1, pc |-> "scan"]
               ELSE LET end == start + e
                    IN IF start + 1 > end
                       THEN [result |-> res, pos |-> p, pc |-> "panic"]
                       ELSE LET var_name == StrSlice(res, start + 1, end)
                                v == get_value(storage, var_name)
                                replacement == IF v = None THEN <<>> ELSE as_string(v)
                            IN [result |-> StrSlice(res, 0, start) \o replacement
                                               \o StrFrom(res, end + 1),
                                pos |-> start + Len(replacement),
                                pc |-> "scan"]

\* An iteration that leaves result and pos as they were is repeated for ever:
\* the loop never exits.
Diverges(res, p, storage) ==
    LET nxt == ScanStep(res, p, storage)
    IN nxt.pc = "scan" /\ nxt.result = res /\ nxt.pos = p

\* get_text as a function: how the call ends ("done": returns text, "hang":
\* never returns, "panic") and the text it returns.
RECURSIVE ScanLoop(_, _, _, _)
ScanLoop(res, p, storage, fuel) ==
    IF ~(p < Len(res)) THEN [outcome |-> "done", text |-> res]
    ELSE IF fuel = 0 \/ Diverges(res, p, storage) THEN [outcome |-> "hang", text |-> res]
    ELSE LET nxt == ScanStep(res, p, storage)
         IN IF nxt.pc = "panic" THEN [outcome |-> "panic", text |-> res]
            ELSE ScanLoop(nxt.result, nxt.pos, storage, fuel - 1)

get_text(tmpl, storage) == ScanLoop(tmpl, 0, storage, 2 * Len(tmpl) + 8)

(***************************************************************************)
(* FontData and FontStyle                                                  *)
(***************************************************************************)
\* Bounds::new
Bounds(l, t, r, b) == [left |-> l, top |-> t, right |-> r, bottom |-> b]

\* Bounds::default
BoundsDefault == Bounds(0, 0, 0, 0)

\* Bounds::width, Bounds::height
width(b) == b.right - b.left
height(b) == b.bottom - b.top

\* glam Vec2
Vec2(x, y) == [x |-> x, y |-> y]

\* Bounds::centered_at
centered_at(b, center) ==
    Bounds(center.x - width(b) \div 2, center.y + height(b) \div 2,
           center.x + width(b) \div 2, center.y - height(b) \div 2)

\* Bounds::centered_within
centered_within(b, other_bounds) ==
    Bounds(other_bounds.left + (width(other_bounds) - width(b)) \div 2,
           other_bounds.top + (height(other_bounds) - height(b)) \div 2,
           other_bounds.left + (width(other_bounds) - width(b)) \div 2,
           other_bounds.top + (height(other_bounds) - height(b)) \div 2)

\* Bounds::translated
translated(b, pos_x, pos_y) ==
    Bounds(b.left + pos_x, b.top + pos_y, b.right + pos_x, b.bottom + pos_y)

\* an f32 quotient num / den, kept as the pair (den is never 0 where used)
Quotient(num, den) == [num |-> num, den |-> den]

\* Bounds::normalized_within: the four coordinates are quotients
normalized_within(b, other_bounds) ==
    Bounds(Quotient(b.left - other_bounds.left, width(other_bounds)),
           Quotient(b.top - other_bounds.bottom, height(other_bounds)),
           Quotient(b.right - other_bounds.left, width(other_bounds)),
           Quotient(b.bottom - other_bounds.bottom, height(other_bounds)))

\* Option<Bounds>
NoBounds == [some |-> FALSE, b |-> BoundsDefault]
SomeBounds(b) == [some |-> TRUE, b |-> b]

\* the character U+00E9 (e with acute accent), outside ASCII; it only occurs
\* as the whole value of a variable
EAcute == "U+00E9"

\* `ch as usize`: the code point of a character
CodePoint(ch) ==
    CASE ch = "\t" -> 9   [] ch = "\n" -> 10  [] ch = "\f" -> 12  [] ch = "\r" -> 13
      [] ch = " " -> 32   [] ch = "-" -> 45   [] ch = "0" -> 48   [] ch = "1" -> 49
      [] ch = "2" -> 50   [] ch = "3" -> 51   [] ch = "4" -> 52   [] ch = "5" -> 53
      [] ch = "6" -> 54   [] ch = "7" -> 55   [] ch = "8" -> 56   [] ch = "9" -> 57
      [] ch = ":" -> 58   [] ch = "?" -> 63   [] ch = "H" -> 72   [] ch = "S" -> 83
      [] ch = "W" -> 87   [] ch = "a" -> 97   [] ch = "b" -> 98   [] ch = "c" -> 99
      [] ch = "d" -> 100  [] ch = "e" -> 101  [] ch = "f" -> 102  [] ch = "g" -> 103
      [] ch = "l" -> 108  [] ch = "o" -> 111  [] ch = "r" -> 114  [] ch = "s" -> 115
      [] ch = "t" -> 116  [] ch = "u" -> 117  [] ch = "x" -> 120  [] ch = "y" -> 121
      [] ch = "z" -> 122  [] ch = "{" -> 123  [] ch = "}" -> 125
      [] ch = EAcute -> 233

\* GlyphWithUnicode
GlyphWithUnicode(u, adv, plane, atlas) ==
    [unicode |-> u, advance |-> adv, plane_bounds |-> plane, atlas_bounds |-> atlas]

NoGlyph == [some |-> FALSE, advance |-> 0, plane_bounds |-> NoBounds, atlas_bounds |-> NoBounds]

\* the loop without the test unicode < 128, the index cut to 7 bits
RECURSIVE AsciiSlots_Wrap(_, _)
AsciiSlots_Wrap(v, glyphs) ==
    IF v = <<>> THEN glyphs
    ELSE LET glyph_data == Head(v)
         IN AsciiSlots_Wrap(Tail(v),
                [glyphs EXCEPT ![glyph_data.unicode % 128] =
                    [some |-> TRUE, advance |-> glyph_data.advance,
                     plane_bounds |-> glyph_data.plane_bounds,
                     atlas_bounds |-> glyph_data.atlas_bounds]])

\* the loop of deserialize_ascii_glyphs: slot c holds the last source glyph
\* with unicode c, for c < 128
RECURSIVE AsciiSlots(_, _)
AsciiSlots(v, glyphs) ==
    IF v = <<>> THEN glyphs
    ELSE LET glyph_data == Head(v)
         IN AsciiSlots(Tail(v),
                IF glyph_data.unicode < 128
                THEN [glyphs EXCEPT ![glyph_data.unicode] =
                         [some |-> TRUE, advance |-> glyph_data.advance,
                          plane_bounds |-> glyph_data.plane_bounds,
                          atlas_bounds |-> glyph_data.atlas_bounds]]
                ELSE glyphs)

\* deserialize_ascii_glyphs with unwrap_or_default() for the '?' slot
deserialize_ascii_glyphs_Default(v) ==
    LET glyphs == AsciiSlots(v, [c \in 0..127 |-> NoGlyph])
        qmark == [glyphs[CodePoint("?")] EXCEPT !.some = TRUE]
    IN [ok |-> TRUE,
        glyphs |-> [c \in 0..127 |-> IF glyphs[c].some THEN glyphs[c] ELSE qmark]]

\* deserialize_ascii_glyphs: the 128 slots, the unset ones holding the glyph
\* of '?'; ok is FALSE when the unwrap of the '?' slot panics
deserialize_ascii_glyphs(v) ==
    LET glyphs == AsciiSlots(v, [c \in 0..127 |-> NoGlyph])
        qmark == glyphs[CodePoint("?")]
    IN [ok |-> qmark.some,
        glyphs |-> [c \in 0..127 |-> IF glyphs[c].some THEN glyphs[c] ELSE qmark]]

\* a glyph of advance adv with a quad of that width
Visible(u, adv) ==
    GlyphWithUnicode(u, adv, SomeBounds(Bounds(0, 2, adv, 0)),
                     SomeBounds(Bounds(u, 0, u + adv, 2)))

\* atlas glyph lists: a space without bounds, '?', narrow letters and a wide W
GlyphSource(adv) ==
    <<GlyphWithUnicode(CodePoint(" "), adv, NoBounds, NoBounds),
      Visible(CodePoint("?"), adv), Visible(CodePoint("W"), 2 * adv)>>
        \o [i \in 1..7 |-> Visible(CodePoint(<<"a", "b", "c", "d", "g", "o", "t">>[i]), adv)]

\* FontData: metrics.line_height, metrics.descender, glyphs
FontData(line_height, descender, source) ==
    [line_height |-> line_height, descender |-> descender,
     glyphs |-> deserialize_ascii_glyphs(source).glyphs]

\* the font table the styles borrow from
Fonts == <<FontData(4, -2, GlyphSource(2)), FontData(6, -2, GlyphSource(2))>>

\* FontStyle: font is a reference into Fonts
FontStyle(font, size) == [font |-> font, size |-> size]

\* FontStyle::line_height
line_height(style) == Fonts[style.font].line_height * style.size

\* FontStyle::get_descender
get_descender(style) == Fonts[style.font].descender * style.size

\* FontStyle::calculate_width: the sum of the advances (style.size is not
\* used); ok is FALSE when glyphs[ch as usize] is out of the 128 slots
RECURSIVE SumAdvance(_, _)
SumAdvance(font, text) ==
    IF text = <<>> THEN 0
    ELSE font.glyphs[CodePoint(Head(text))].advance + SumAdvance(font, Tail(text))

calculate_width(style, text) ==
    IF \E i \in 1..Len(text) : CodePoint(text[i]) >= 128
    THEN [ok |-> FALSE, width |-> 0]
    ELSE [ok |-> TRUE, width |-> SumAdvance(Fonts[style.font], text)]

(***************************************************************************)
(* Line builder                                                            *)
(***************************************************************************)
\* TextSegment::new
TextSegment(tmpl, style_id) == [template |-> tmpl, style_id |-> style_id]

\* Line::new
LineNew == [glyphs |-> <<>>, style_ranges |-> <<>>, width |-> 0, height |-> 0]

\* adjust_height storing the line height whatever the height was
adjust_height_Set(line, lh) == [line EXCEPT !.height = lh]

\* adjust_height leaving the height as it is
adjust_height_Keep(line, lh) == line

\* Line::adjust_height
adjust_height(line, lh) == IF line.height < lh THEN [line EXCEPT !.height = lh] ELSE line

\* Line::with_height
with_height(line, h) == [line EXCEPT !.height = h]

\* push_glyphs without the merge into the last style range
push_glyphs_NoMerge(line, glyphs, w, style_index, lh) ==
    LET l == adjust_height([line EXCEPT !.glyphs = @ \o glyphs, !.width = @ + w], lh)
    IN [l EXCEPT !.style_ranges =
           Append(@, [start |-> Len(l.glyphs) - Len(glyphs),
                      end |-> Len(l.glyphs),
                      style_index |-> style_index])]

\* Line::push_glyphs
push_glyphs(line, glyphs, w, style_index, lh) ==
    LET l == adjust_height([line EXCEPT !.glyphs = @ \o glyphs, !.width = @ + w], lh)
        n == Len(l.style_ranges)
    IN IF n > 0 /\ l.style_ranges[n].style_index = style_index
       THEN [l EXCEPT !.style_ranges[n].end = Len(l.glyphs)]
       ELSE [l EXCEPT !.style_ranges =
                Append(@, [start |-> Len(l.glyphs) - Len(glyphs),
                           end |-> Len(l.glyphs),
                           style_index |-> style_index])]

\* get_words_and_spaces: the loop over char_indices, then the last word
RECURSIVE WordsLoop(_, _, _, _)
WordsLoop(text, i, start, acc) ==
    IF i = Len(text)
    THEN IF start # Len(text) THEN Append(acc, StrFrom(text, start)) ELSE acc
    ELSE IF IsAsciiWhitespace(text[i + 1])
         THEN WordsLoop(text, i + 1, i + 1,
                        (IF start # i THEN Append(acc, StrSlice(text, start, i)) ELSE acc)
                            \o <<StrSlice(text, i, i + 1)>>)
         ELSE WordsLoop(text, i + 1, start, acc)

get_words_and_spaces(text) == WordsLoop(text, 0, 0, <<>>)

\* word.len() == 1 && word.as_bytes()[0] == b'\n'
IsLineBreak(word) == Len(word) = 1 /\ word[1] = "\n"

\* the wrap test without the width of the token
NeedsNewLine_NoToken(ls, w, maxw) == ls = <<>> \/ ls[Len(ls)].width > maxw

\* the wrap test with >= for >
NeedsNewLine_Geq(ls, w, maxw) == ls = <<>> \/ ls[Len(ls)].width + w >= maxw

\* lines.last().is_none_or(|l| l.width + width > max_width)
NeedsNewLine(ls, w, maxw) == ls = <<>> \/ ls[Len(ls)].width + w > maxw

(***************************************************************************)
(* Inputs                                                                  *)
(***************************************************************************)
MaxLen == 4

Sigma == {"a", "b", "{", "}"}

SeqsUpTo(S, n) == UNION {[1..k -> S] : k \in 0..n}

Hello == <<"H", "e", "l", "l", "o">>
ScoreName == <<"s", "c", "o", "r", "e">>
ScoreTemplate == <<"S", "c", "o", "r", "e", ":", " ", "{">> \o ScoreName \o <<"}">>

\* every template of at most MaxLen characters over Sigma, the templates of
\* the spec's scenarios, and templates with two placeholders and literal
\* text before, between and after them
Templates ==
    SeqsUpTo(Sigma, MaxLen)
        \cup {Hello, ScoreTemplate,
              <<"{", "a", "}", "{", "b", "}">>,
              <<"a", "{", "a", "}", "b", "{", "b", "}", "a">>}

\* the name table of the variable enum (define_variables!)
VarNames == << <<"a">>, <<"b">>, ScoreName >>

ValuesA == {None, StringValue(<<"x">>), StringValue(<<"x", "y">>), IntegerValue(42),
            StringValue(<<"{", "b", "}">>), StringValue(<<"}", "x">>),
            BooleanValue(TRUE)}
ValuesB == {None, StringValue(<<"z">>)}
ValuesScore == {None, IntegerValue(42), IntegerValue(-7)}

Storages ==
    {EmptyVariableStorage}
        \cup {[kind |-> "Enum", names |-> VarNames, values |-> <<va, vb, vs>>] :
                va \in ValuesA, vb \in ValuesB, vs \in ValuesScore}

(***************************************************************************)
(* Values of the variables a specification does not use                    *)
(***************************************************************************)
gtIdle == template = <<>> /\ result = <<>> /\ pos = 0 /\ gt_pc = "idle"

blIdle ==
    /\ text_segments = <<>> /\ styles = <<>> /\ max_width = 0 /\ lines = <<>>
    /\ seg_i = 0 /\ words = <<>> /\ bl_pc = "idle" /\ pushed = <<>> /\ breaks = <<>>

toIdle ==
    /\ auto_line_break = FALSE /\ size_to_fit = FALSE /\ h_align = "Center"
    /\ v_align = "Middle" /\ bounds = [left |-> 0, top |-> 0, right |-> 0, bottom |-> 0]
    /\ dirty = FALSE /\ max_style_id = 0

tsIdle ==
    /\ t_pc = "idle" /\ total_line_height = 0 /\ total_glyphs_per_style = <<>>
    /\ vert_index_buffers = <<>> /\ cursor_y = 0 /\ cursor_x = 0 /\ line_bottom = 0
    /\ line_i = 0 /\ line_start_x = 0

fnIdle == arg = <<>> /\ ret = <<>>

(***************************************************************************)
(* SpecGetText: one call of get_text, an action per loop iteration          *)
(***************************************************************************)
InitGetText ==
    /\ template \in Templates
    /\ variables \in Storages
    /\ result = template    \* let mut result = self.template.clone()
    /\ pos = 0
    /\ gt_pc = "scan"
    /\ blIdle /\ toIdle /\ tsIdle /\ fnIdle

\* an iteration that changes result or pos
GetTextIter ==
    /\ gt_pc = "scan" /\ pos < Len(result)
    /\ ~Diverges(result, pos, variables)
    /\ LET nxt == ScanStep(result, pos, variables)
       IN /\ nxt.pc = "scan"
          /\ result' = nxt.result
          /\ pos' = nxt.pos
    /\ UNCHANGED <<template, gt_pc, variables, blVars, toVars, tsVars, fnVars>>

\* an iteration that changes nothing: the loop is entered again in the same
\* state, for ever
GetTextSpin ==
    /\ gt_pc = "scan" /\ pos < Len(result)
    /\ Diverges(result, pos, variables)
    /\ gt_pc' = "hang"
    /\ UNCHANGED <<template, result, pos, variables, blVars, toVars, tsVars, fnVars>>

\* result[start + 1..end] with start + 1 > end
GetTextPanic ==
    /\ gt_pc = "scan" /\ pos < Len(result)
    /\ ScanStep(result, pos, variables).pc = "panic"
    /\ gt_pc' = "panic"
    /\ UNCHANGED <<template, result, pos, variables, blVars, toVars, tsVars, fnVars>>

\* the loop condition fails: result is returned
GetTextReturn ==
    /\ gt_pc = "scan" /\ ~(pos < Len(result))
    /\ gt_pc' = "done"
    /\ UNCHANGED <<template, result, pos, variables, blVars, toVars, tsVars, fnVars>>

NextGetText == GetTextIter \/ GetTextSpin \/ GetTextPanic \/ GetTextReturn

SpecGetText == InitGetText /\ [][NextGetText]_vars

\* get_text as a function ends as the loop does
GetTextAgrees ==
    gt_pc \in {"done", "hang", "panic"} =>
        get_text(template, variables) = [outcome |-> gt_pc, text |-> result]

(***************************************************************************)
(* SpecLines: one call of build_lines, an action per segment and per token *)
(***************************************************************************)
MaxSegments == 2

PlaceA == <<"{", "a", "}">>
PlaceB == <<"{", "b", "}">>
CatDog == <<"c", "a", "t", " ", "d", "o", "g">>

\* templates of the segments: two placeholders, whose text comes from the
\* storage, and a plain word
SegmentTemplates == {PlaceA, PlaceB, Hello}

\* style indices used by segments; StyleSlices holds slices too short for some
StyleIds == 0..2

Segments == {TextSegment(t, id) : t \in SegmentTemplates, id \in StyleIds}

SegmentLists == SeqsUpTo(Segments, MaxSegments)

LineStorages ==
    {EmptyVariableStorage}
        \cup {[kind |-> "Enum", names |-> VarNames, values |-> <<va, vb, None>>] :
                va \in {None, StringValue(CatDog), StringValue(<<"a", "\n", "W">>)},
                vb \in {StringValue(<<"\n">>), StringValue(<<" ">>), StringValue(<<"W">>),
                        StringValue(<<"b", " ", "a">>), StringValue(<<EAcute>>)}}

StyleSlices == {<<FontStyle(1, 1), FontStyle(2, 2)>>, <<FontStyle(2, 1)>>, <<>>}

MaxWidths == {0, 4, 8, 14}

InitLines ==
    /\ text_segments \in SegmentLists
    /\ styles \in StyleSlices
    /\ variables \in LineStorages
    /\ max_width \in MaxWidths
    /\ lines = <<LineNew>>      \* lines.push(Line::new())
    /\ pushed = << <<>> >>
    /\ breaks = << <<>> >>
    /\ seg_i = 0
    /\ words = <<>>
    /\ bl_pc = "segment"
    /\ gtIdle /\ toIdle /\ tsIdle /\ fnIdle

\* the state after the token at the head of words: the next token, or the
\* next segment
AfterWord ==
    /\ words' = Tail(words)
    /\ IF Tail(words) = <<>>
       THEN seg_i' = seg_i + 1 /\ bl_pc' = "segment"
       ELSE UNCHANGED <<seg_i, bl_pc>>

\* the head of the outer loop body: get_text, get_words_and_spaces and
\* styles[text_segment.style_id], in this order
BuildLinesSegment ==
    /\ bl_pc = "segment" /\ seg_i < Len(text_segments)
    /\ LET text_segment == text_segments[seg_i + 1]
           text == get_text(text_segment.template, variables)
           ws == get_words_and_spaces(text.text)
       IN IF text.outcome # "done"
          THEN bl_pc' = text.outcome /\ UNCHANGED <<words, seg_i>>
          ELSE IF ~(text_segment.style_id < Len(styles))
          THEN bl_pc' = "oob" /\ UNCHANGED <<words, seg_i>>
          ELSE /\ words' = ws
               /\ IF ws = <<>>
                  THEN seg_i' = seg_i + 1 /\ UNCHANGED bl_pc
                  ELSE bl_pc' = "word" /\ UNCHANGED seg_i
    /\ UNCHANGED <<text_segments, styles, max_width, lines, pushed, breaks>>
    /\ UNCHANGED <<gtVars, variables, toVars, tsVars, fnVars>>

\* a '\n' token: only the height of the current Line is adjusted
BuildLinesLineBreak ==
    /\ bl_pc = "word" /\ IsLineBreak(Head(words))
    /\ LET style == styles[text_segments[seg_i + 1].style_id + 1]
       IN lines' = [lines EXCEPT ![Len(lines)] = adjust_height(@, line_height(style))]
    /\ breaks' = [breaks EXCEPT ![Len(breaks)] =
                     Append(@, text_segments[seg_i + 1].style_id)]
    /\ AfterWord
    /\ UNCHANGED <<text_segments, styles, max_width, pushed>>
    /\ UNCHANGED <<gtVars, variables, toVars, tsVars, fnVars>>

\* a word or whitespace token: wrap when it does not fit, then push it
BuildLinesWord ==
    /\ bl_pc = "word" /\ ~IsLineBreak(Head(words))
    /\ LET word == Head(words)
           style_id == text_segments[seg_i + 1].style_id
           font_style == styles[style_id + 1]
           w == calculate_width(font_style, word)
           wrap == NeedsNewLine(lines, w.width, max_width)
           ls == IF wrap
                 THEN Append(lines, with_height(LineNew, line_height(font_style)))
                 ELSE lines
           ps == IF wrap THEN Append(pushed, <<>>) ELSE pushed
           bs == IF wrap THEN Append(breaks, <<>>) ELSE breaks
       IN IF ~w.ok
          THEN bl_pc' = "oob" /\ UNCHANGED <<lines, pushed, breaks, words, seg_i>>
          ELSE /\ lines' = [ls EXCEPT ![Len(ls)] =
                              push_glyphs(@, word, w.width, style_id, line_height(font_style))]
               /\ pushed' = [ps EXCEPT ![Len(ps)] =
                               Append(@, [word |-> word, style_index |-> style_id,
                                          width |-> w.width])]
               /\ breaks' = bs
               /\ AfterWord
    /\ UNCHANGED <<text_segments, styles, max_width>>
    /\ UNCHANGED <<gtVars, variables, toVars, tsVars, fnVars>>

\* all segments are done: lines is returned
BuildLinesReturn ==
    /\ bl_pc = "segment" /\ seg_i = Len(text_segments)
    /\ bl_pc' = "returned"
    /\ UNCHANGED <<text_segments, styles, max_width, lines, pushed, breaks, seg_i, words>>
    /\ UNCHANGED <<gtVars, variables, toVars, tsVars, fnVars>>

NextLines ==
    BuildLinesSegment \/ BuildLinesLineBreak \/ BuildLinesWord \/ BuildLinesReturn

SpecLines == InitLines /\ [][NextLines]_vars

(***************************************************************************)
(* TextObject::tesselate                                                   *)
(***************************************************************************)
\* Bounds::transformed
transformed(b, pos_x, pos_y, scale_x, scale_y) ==
    Bounds(b.left * scale_x + pos_x, b.top * scale_y + pos_y,
           b.right * scale_x + pos_x, b.bottom * scale_y + pos_y)

\* Bounds::get_bottom_left, get_top_left, get_top_right, get_bottom_right
get_bottom_left(b) == <<b.left, b.bottom>>
get_top_left(b) == <<b.left, b.top>>
get_top_right(b) == <<b.right, b.top>>
get_bottom_right(b) == <<b.right, b.bottom>>

\* lines.iter().map(|l| l.height).sum()
RECURSIVE SumHeights(_)
SumHeights(ls) == IF ls = <<>> THEN 0 ELSE Head(ls).height + SumHeights(Tail(ls))

\* the glyphs the loops over lines, style ranges and glyphs visit, in order,
\* each with the style index of its range
RECURSIVE RangeVisits(_, _)
RangeVisits(line, rs) ==
    IF rs = <<>> THEN <<>>
    ELSE [k \in 1..(Head(rs).end - Head(rs).start) |->
             [glyph |-> line.glyphs[Head(rs).start + k],
              style_index |-> Head(rs).style_index]]
         \o RangeVisits(line, Tail(rs))

RECURSIVE Visits(_)
Visits(ls) ==
    IF ls = <<>> THEN <<>>
    ELSE RangeVisits(Head(ls), Head(ls).style_ranges) \o Visits(Tail(ls))

\* Vec::with_capacity(n): room for n elements, and no element
WithCapacity(n) == <<>>

\* the counting loop: total_glyphs_per_style[style_index] += 1 for every
\* glyph that is not whitespace; ok is FALSE when the index is out of bounds
RECURSIVE CountGlyphs(_, _)
CountGlyphs(vs, counts) ==
    IF vs = <<>> THEN [ok |-> TRUE, counts |-> counts]
    ELSE IF IsAsciiWhitespace(Head(vs).glyph) THEN CountGlyphs(Tail(vs), counts)
    ELSE IF ~(Head(vs).style_index < Len(counts)) THEN [ok |-> FALSE, counts |-> counts]
    ELSE CountGlyphs(Tail(vs), [counts EXCEPT ![Head(vs).style_index + 1] = @ + 1])

\* the four vertices of a glyph quad (position, altas_coords, glyph_coords;
\* color and bounds_coords take no part in what follows)
Quad(translated_plane_bounds, atlas_bounds) ==
    <<[position |-> get_bottom_left(translated_plane_bounds),
       altas_coords |-> get_bottom_left(atlas_bounds), glyph_coords |-> <<0, 0>>],
      [position |-> get_top_left(translated_plane_bounds),
       altas_coords |-> get_top_left(atlas_bounds), glyph_coords |-> <<0, 1>>],
      [position |-> get_top_right(translated_plane_bounds),
       altas_coords |-> get_top_right(atlas_bounds), glyph_coords |-> <<1, 1>>],
      [position |-> get_bottom_right(translated_plane_bounds),
       altas_coords |-> get_bottom_right(atlas_bounds), glyph_coords |-> <<1, 0>>]>>

\* the loop over the glyphs of one style range; st holds the buffers, the
\* horizontal cursor and ok (FALSE after glyphs[*glyph as u8 as usize] with
\* an index of 128 or more)
RECURSIVE WalkGlyphs(_, _, _, _, _)
WalkGlyphs(gs, style_index, style, baseline_y, st) ==
    IF gs = <<>> \/ ~st.ok THEN st
    ELSE IF ~(style_index < Len(st.buffers))   \* get_mut(style_index) is None
    THEN WalkGlyphs(Tail(gs), style_index, style, baseline_y, st)
    ELSE IF CodePoint(Head(gs)) % 256 >= 128 THEN [st EXCEPT !.ok = FALSE]
    ELSE LET glyph_data == Fonts[style.font].glyphs[CodePoint(Head(gs)) % 256]
             visible == glyph_data.plane_bounds.some /\ glyph_data.atlas_bounds.some
             buf == st.buffers[style_index + 1]
             quad == Quad(transformed(glyph_data.plane_bounds.b, st.cursor_x,
                                      baseline_y, style.size, style.size),
                          glyph_data.atlas_bounds.b)
         IN WalkGlyphs(Tail(gs), style_index, style, baseline_y,
                [st EXCEPT
                    !.buffers[style_index + 1] =
                        IF visible
                        THEN [vertices |-> buf.vertices \o quad,
                              indices |-> buf.indices \o <<0, 1, 2, 0, 2, 3>>]
                        ELSE buf,
                    !.cursor_x = @ + glyph_data.advance * style.size])

\* the loop over the style ranges of one Line; the vertical cursor descends
\* at the end of each range
RECURSIVE WalkRanges(_, _, _, _)
WalkRanges(line, rs, bottom, st) ==
    IF rs = <<>> \/ ~st.ok THEN st
    ELSE IF ~(Head(rs).style_index < Len(styles)) THEN [st EXCEPT !.ok = FALSE]
    ELSE LET style == styles[Head(rs).style_index + 1]
             baseline_y == bottom + get_descender(style)
             after == WalkGlyphs(StrSlice(line.glyphs, Head(rs).start, Head(rs).end),
                                 Head(rs).style_index, style, baseline_y, st)
         IN WalkRanges(line, Tail(rs), bottom,
                       [after EXCEPT !.cursor_y = @ - line.height])

(***************************************************************************)
(* SpecTess: a TextObject as its constructors and builders leave it, and    *)
(* one call of tesselate on it                                             *)
(***************************************************************************)
HAligns == {"Left", "Center", "Right"}
VAligns == {"Top", "Middle", "Bottom"}

TessBounds == {BoundsDefault, Bounds(0, 0, 8, 16)}

RECURSIVE MaxStyleId(_)
MaxStyleId(segs) ==
    IF segs = <<>> THEN 0
    ELSE LET m == MaxStyleId(Tail(segs))
         IN IF Head(segs).style_id > m THEN Head(segs).style_id ELSE m

\* TextObject::new / new_with_variables / new_with_storage, then
\* with_text_segment, with_variable, with_bounds, with_h_align, with_v_align;
\* styles is the argument of tesselate, which calls build_lines with
\* self.bounds.width()
InitTess ==
    /\ text_segments \in {sl \in SegmentLists : sl # <<>> /\ sl[1].style_id = 0}
    /\ variables \in LineStorages
    /\ auto_line_break = FALSE
    /\ size_to_fit = FALSE
    /\ h_align \in HAligns
    /\ v_align \in VAligns
    /\ bounds \in TessBounds
    /\ dirty = TRUE
    /\ max_style_id = MaxStyleId(text_segments)
    /\ styles \in StyleSlices
    /\ max_width = width(bounds)
    /\ lines = <<LineNew>>
    /\ pushed = << <<>> >>
    /\ breaks = << <<>> >>
    /\ seg_i = 0
    /\ words = <<>>
    /\ bl_pc = "segment"
    /\ t_pc = "build_lines"
    /\ total_line_height = 0 /\ total_glyphs_per_style = <<>>
    /\ vert_index_buffers = <<>> /\ cursor_y = 0 /\ cursor_x = 0 /\ line_bottom = 0
    /\ line_i = 0 /\ line_start_x = 0
    /\ gtIdle /\ fnIdle

\* from the return of build_lines to the loop over the lines: the sum of the
\* heights, the glyph counts, the buffers and the vertical start
TessCount ==
    /\ t_pc = "build_lines" /\ bl_pc = "returned"
    /\ LET c == CountGlyphs(Visits(lines), WithCapacity(Len(styles)))
           total == SumHeights(lines)
       IN IF ~c.ok
          THEN /\ t_pc' = "oob"
               /\ UNCHANGED <<total_line_height, total_glyphs_per_style,
                              vert_index_buffers, cursor_y>>
          ELSE /\ t_pc' = "walk"
               /\ total_line_height' = total
               /\ total_glyphs_per_style' = c.counts
               /\ vert_index_buffers' =
                      [i \in 1..Len(c.counts) |-> [vertices |-> <<>>, indices |-> <<>>]]
               /\ cursor_y' = CASE v_align = "Top" -> bounds.top
                                [] v_align = "Middle" -> (height(bounds) - total) \div 2
                                [] v_align = "Bottom" -> bounds.bottom - total
    /\ UNCHANGED <<cursor_x, line_bottom, line_i, line_start_x>>
    /\ UNCHANGED <<gtVars, variables, blVars, toVars, fnVars>>

\* the start of the horizontal cursor, from the width of the first Line only
StartX_FirstLine(line) ==
    CASE h_align = "Left" -> 0
      [] h_align = "Center" -> (width(bounds) - lines[1].width) \div 2
      [] h_align = "Right" -> width(bounds) - lines[1].width

\* let mut cursor_x = match self.h_align { ... }
StartX(line) ==
    CASE h_align = "Left" -> 0
      [] h_align = "Center" -> (width(bounds) - line.width) \div 2
      [] h_align = "Right" -> width(bounds) - line.width

\* one iteration of the loop over the lines
TessLine ==
    /\ t_pc = "walk" /\ line_i < Len(lines)
    /\ LET line == lines[line_i + 1]
           bottom == cursor_y - line.height
           x0 == StartX(line)
           st == WalkRanges(line, line.style_ranges, bottom,
                            [buffers |-> vert_index_buffers, cursor_x |-> x0,
                             cursor_y |-> cursor_y, ok |-> TRUE])
       IN /\ line_bottom' = bottom
          /\ line_start_x' = x0
          /\ IF ~st.ok
             THEN t_pc' = "oob" /\ UNCHANGED <<vert_index_buffers, cursor_x, cursor_y, line_i>>
             ELSE /\ vert_index_buffers' = st.buffers
                  /\ cursor_x' = st.cursor_x
                  /\ cursor_y' = st.cursor_y
                  /\ line_i' = line_i + 1
                  /\ UNCHANGED t_pc
    /\ UNCHANGED <<total_line_height, total_glyphs_per_style>>
    /\ UNCHANGED <<gtVars, variables, blVars, toVars, fnVars>>

\* vert_index_buffers is returned
TessReturn ==
    /\ t_pc = "walk" /\ line_i = Len(lines)
    /\ t_pc' = "returned"
    /\ UNCHANGED <<total_line_height, total_glyphs_per_style, vert_index_buffers,
                   cursor_y, cursor_x, line_bottom, line_i, line_start_x>>
    /\ UNCHANGED <<gtVars, variables, blVars, toVars, fnVars>>

NextTess ==
    \/ BuildLinesSegment \/ BuildLinesLineBreak \/ BuildLinesWord \/ BuildLinesReturn
    \/ TessCount \/ TessLine \/ TessReturn

SpecTess == InitTess /\ [][NextTess]_vars

(***************************************************************************)
(* SpecObject: the life of a TextObject: a constructor, then builders,     *)
(* set_variable, set_clean and calls of tesselate in any order             *)
(***************************************************************************)
ObjTexts == {PlaceB, Hello}

ObjSegments == {TextSegment(PlaceB, 1)}

\* names passed to set_variable and with_variable: a defined one and one the
\* storage does not know
Unknown == <<"z", "z">>
ObjNames == {<<"b">>, Unknown}

ObjValues == {StringValue(<<" ">>), StringValue(<<"W">>), StringValue(<<"\n">>)}

\* storages passed to new_with_storage
ObjStorages == {[kind |-> "Enum", names |-> VarNames,
                 values |-> <<None, StringValue(<<" ">>), None>>]}

Called(op, name) == [op |-> op, name |-> name]

\* TextObject::new, new_with_variables, new_with_storage
InitObject ==
    /\ \E text \in ObjTexts : text_segments = <<TextSegment(text, 0)>>
    /\ \/ variables = EmptyVariableStorage /\ arg = Called("new", <<>>)
       \/ variables = EnumVariableStorage(VarNames)
            /\ arg = Called("new_with_variables", <<>>)
       \/ variables \in ObjStorages /\ arg = Called("new_with_storage", <<>>)
    /\ auto_line_break = FALSE
    /\ size_to_fit = FALSE
    /\ h_align = "Center"
    /\ v_align = "Middle"
    /\ bounds = BoundsDefault
    /\ dirty = TRUE
    /\ max_style_id = 0
    /\ ret = <<>>
    /\ styles = <<>> /\ max_width = 0 /\ lines = <<>> /\ seg_i = 0 /\ words = <<>>
    /\ bl_pc = "idle" /\ pushed = <<>> /\ breaks = <<>>
    /\ gtIdle /\ tsIdle

\* no call of tesselate is in progress on the object
ObjectAtRest == t_pc = "idle"

with_bounds(b) ==
    /\ ObjectAtRest
    /\ bounds' = b
    /\ dirty' = TRUE
    /\ arg' = Called("with_bounds", <<>>)
    /\ UNCHANGED <<auto_line_break, size_to_fit, h_align, v_align, max_style_id>>
    /\ UNCHANGED <<gtVars, variables, blVars, tsVars, ret>>

with_auto_line_break(v) ==
    /\ ObjectAtRest
    /\ auto_line_break' = v
    /\ dirty' = TRUE
    /\ arg' = Called("with_auto_line_break", <<>>)
    /\ UNCHANGED <<size_to_fit, h_align, v_align, bounds, max_style_id>>
    /\ UNCHANGED <<gtVars, variables, blVars, tsVars, ret>>

sized_to_fit(auto_size) ==
    /\ ObjectAtRest
    /\ size_to_fit' = auto_size
    /\ dirty' = TRUE
    /\ arg' = Called("sized_to_fit", <<>>)
    /\ UNCHANGED <<auto_line_break, h_align, v_align, bounds, max_style_id>>
    /\ UNCHANGED <<gtVars, variables, blVars, tsVars, ret>>

with_h_align(h) ==
    /\ ObjectAtRest
    /\ h_align' = h
    /\ dirty' = TRUE
    /\ arg' = Called("with_h_align", <<>>)
    /\ UNCHANGED <<auto_line_break, size_to_fit, v_align, bounds, max_style_id>>
    /\ UNCHANGED <<gtVars, variables, blVars, tsVars, ret>>

with_v_align(v) ==
    /\ ObjectAtRest
    /\ v_align' = v
    /\ dirty' = TRUE
    /\ arg' = Called("with_v_align", <<>>)
    /\ UNCHANGED <<auto_line_break, size_to_fit, h_align, bounds, max_style_id>>
    /\ UNCHANGED <<gtVars, variables, blVars, tsVars, ret>>

\* the call of set_variable made last: its name and value arguments
SetCalled(name, value) == [op |-> "set_variable", name |-> name, value |-> value]

\* set_variable setting the flag whatever set_value_by_name returns
set_variable_AlwaysDirty(name, value) ==
    /\ ObjectAtRest
    /\ variables' = set_value_by_name(variables, name, value).storage
    /\ dirty' = TRUE
    /\ arg' = SetCalled(name, value)
    /\ UNCHANGED <<auto_line_break, size_to_fit, h_align, v_align, bounds, max_style_id>>
    /\ UNCHANGED <<gtVars, blVars, tsVars, ret>>

\* set_variable: dirty is set only when the storage knows the name
set_variable(name, value) ==
    /\ ObjectAtRest
    /\ LET r == set_value_by_name(variables, name, value)
       IN /\ variables' = r.storage
          /\ dirty' = IF r.ok THEN TRUE ELSE dirty
    /\ arg' = SetCalled(name, value)
    /\ UNCHANGED <<auto_line_break, size_to_fit, h_align, v_align, bounds, max_style_id>>
    /\ UNCHANGED <<gtVars, blVars, tsVars, ret>>

\* with_variable: set_variable, then dirty = true whatever the name
with_variable(name, value) ==
    /\ ObjectAtRest
    /\ variables' = set_value_by_name(variables, name, value).storage
    /\ dirty' = TRUE
    /\ arg' = Called("with_variable", name)
    /\ UNCHANGED <<auto_line_break, size_to_fit, h_align, v_align, bounds, max_style_id>>
    /\ UNCHANGED <<gtVars, blVars, tsVars, ret>>

with_text_segment(text_segment) ==
    /\ ObjectAtRest
    /\ Len(text_segments) < MaxSegments
    /\ max_style_id' = IF text_segment.style_id > max_style_id
                       THEN text_segment.style_id ELSE max_style_id
    /\ text_segments' = Append(text_segments, text_segment)
    /\ dirty' = TRUE
    /\ arg' = Called("with_text_segment", <<>>)
    /\ UNCHANGED <<auto_line_break, size_to_fit, h_align, v_align, bounds>>
    /\ UNCHANGED <<styles, max_width, lines, seg_i, words, bl_pc, pushed, breaks>>
    /\ UNCHANGED <<gtVars, variables, tsVars, ret>>

set_clean ==
    /\ ObjectAtRest
    /\ dirty' = FALSE
    /\ arg' = Called("set_clean", <<>>)
    /\ UNCHANGED <<auto_line_break, size_to_fit, h_align, v_align, bounds, max_style_id>>
    /\ UNCHANGED <<gtVars, variables, blVars, tsVars, ret>>

\* tesselate(&self, styles), entry: build_lines is called with the segments,
\* the styles, the storage and self.bounds.width()
Tesselate(st) ==
    /\ ObjectAtRest
    /\ styles' = st
    /\ max_width' = width(bounds)
    /\ lines' = <<LineNew>>
    /\ pushed' = << <<>> >>
    /\ breaks' = << <<>> >>
    /\ seg_i' = 0
    /\ words' = <<>>
    /\ bl_pc' = "segment"
    /\ t_pc' = "build_lines"
    /\ arg' = Called("tesselate", <<>>)
    /\ UNCHANGED <<total_line_height, total_glyphs_per_style, vert_index_buffers,
                   cursor_y, cursor_x, line_bottom, line_i, line_start_x>>
    /\ UNCHANGED <<gtVars, variables, text_segments, toVars, ret>>

\* the locals of a call of tesselate that has returned
Dropped ==
    /\ styles' = <<>> /\ max_width' = 0 /\ lines' = <<>> /\ seg_i' = 0
    /\ words' = <<>> /\ bl_pc' = "idle" /\ pushed' = <<>> /\ breaks' = <<>>
    /\ t_pc' = "idle" /\ total_line_height' = 0 /\ total_glyphs_per_style' = <<>>
    /\ vert_index_buffers' = <<>> /\ cursor_y' = 0 /\ cursor_x' = 0
    /\ line_bottom' = 0 /\ line_i' = 0 /\ line_start_x' = 0

\* tesselate hands vert_index_buffers to its caller, with a second body that
\* clears the flag on the way out
TesselateReturn_Clean ==
    /\ t_pc = "walk" /\ line_i = Len(lines)
    /\ ret' = vert_index_buffers
    /\ Dropped
    /\ dirty' = FALSE
    /\ UNCHANGED <<auto_line_break, size_to_fit, h_align, v_align, bounds, max_style_id>>
    /\ UNCHANGED <<gtVars, variables, text_segments, arg>>

TesselateReturn ==
    /\ t_pc = "walk" /\ line_i = Len(lines)
    /\ ret' = vert_index_buffers
    /\ Dropped
    /\ UNCHANGED <<gtVars, variables, text_segments, toVars, arg>>

NextObject ==
    \/ \E b \in TessBounds : with_bounds(b)
    \/ \E v \in BOOLEAN : with_auto_line_break(v)
    \/ \E v \in BOOLEAN : sized_to_fit(v)
    \/ \E h \in HAligns : with_h_align(h)
    \/ \E v \in VAligns : with_v_align(v)
    \/ \E name \in ObjNames, value \in ObjValues : set_variable(name, value)
    \/ \E name \in ObjNames, value \in ObjValues : with_variable(name, value)
    \/ \E seg \in ObjSegments : with_text_segment(seg)
    \/ set_clean
    \/ \E st \in StyleSlices : Tesselate(st)
    \/ BuildLinesSegment \/ BuildLinesLineBreak \/ BuildLinesWord \/ BuildLinesReturn
    \/ TessCount \/ TessLine \/ TesselateReturn

SpecObject == InitObject /\ [][NextObject]_vars

(***************************************************************************)
(* SpecFloat: one call of as_string on a Float                             *)
(***************************************************************************)
MaxMilli == 1100

\* floats with a fractional part that rounds up to a whole number, with
\* zeros in the integer part, with one and with two decimals
FloatSamples ==
    {2000, 3000, 2500, 3140, 3100, 2999, 9999, 10001, 10000, 100500, 20050,
     -2500, -3140, -10001}

\* a value halfway between two hundredths is left out: how format! breaks
\* the tie depends on the binary expansion of the f64
FloatInputs == {m \in (-MaxMilli..MaxMilli) \cup FloatSamples : m % 10 # 5}

InitFloat ==
    /\ arg \in {FloatValue(m) : m \in FloatInputs}
    /\ ret = <<>>
    /\ variables = EmptyVariableStorage
    /\ gtIdle /\ blIdle /\ toIdle /\ tsIdle

\* ret holds the String as_string returns
AsString ==
    /\ ret = <<>>
    /\ ret' = <<as_string(arg)>>
    /\ UNCHANGED <<arg, gtVars, variables, blVars, toVars, tsVars>>

NextFloat == AsString

SpecFloat == InitFloat /\ [][NextFloat]_vars

(***************************************************************************)
(* SpecStorage: a VariableStorage, and calls of set_value_by_name and      *)
(* get_value on it                                                         *)
(***************************************************************************)
StorageNames == {<<"a">>, <<"b">>, ScoreName, Unknown}

StorageValues ==
    {StringValue(<<"x">>), IntegerValue(42), FloatValue(2500), BooleanValue(TRUE)}

StorageCall(op, name, value) == [op |-> op, name |-> name, value |-> value]

\* EmptyVariableStorage::new, EnumVariableStorage::<T>::new
InitStorage ==
    /\ variables \in {EmptyVariableStorage, EnumVariableStorage(VarNames)}
    /\ arg = StorageCall("new", <<>>, None)
    /\ ret = <<>>
    /\ gtIdle /\ blIdle /\ toIdle /\ tsIdle

SetValueByName(name, value) ==
    /\ LET r == set_value_by_name(variables, name, value)
       IN variables' = r.storage /\ ret' = <<r.ok>>
    /\ arg' = StorageCall("set_value_by_name", name, value)
    /\ UNCHANGED <<gtVars, blVars, toVars, tsVars>>

GetValue(name) ==
    /\ ret' = <<get_value(variables, name)>>
    /\ arg' = StorageCall("get_value", name, None)
    /\ UNCHANGED <<variables, gtVars, blVars, toVars, tsVars>>

NextStorage ==
    \/ \E name \in StorageNames, value \in StorageValues : SetValueByName(name, value)
    \/ \E name \in StorageNames : GetValue(name)

SpecStorage == InitStorage /\ [][NextStorage]_vars

(***************************************************************************)
(* SpecFont: one deserialization of the glyph list of a FontData           *)
(***************************************************************************)
MaxGlyphs == 3

\* unicode values of source glyphs: '?', 'a', and two outside the 128 slots
FontUnicodes == {CodePoint("?"), CodePoint("a"), 128, 191}

\* source glyphs: for each unicode one with bounds and one, wider, without
SourceGlyphs ==
    {Visible(u, 2) : u \in FontUnicodes}
        \cup {GlyphWithUnicode(u, 4, NoBounds, NoBounds) : u \in FontUnicodes}

\* Vec::<GlyphWithUnicode>::deserialize(deserializer)?
InitFont ==
    /\ arg \in SeqsUpTo(SourceGlyphs, MaxGlyphs)
    /\ ret = <<>>
    /\ variables = EmptyVariableStorage
    /\ gtIdle /\ blIdle /\ toIdle /\ tsIdle

\* ret holds the outcome: the array, or the panic of unwrap (ok FALSE)
DeserializeAsciiGlyphs ==
    /\ ret = <<>>
    /\ ret' = <<deserialize_ascii_glyphs(arg)>>
    /\ UNCHANGED <<arg, gtVars, variables, blVars, toVars, tsVars>>

NextFont == DeserializeAsciiGlyphs

SpecFont == InitFont /\ [][NextFont]_vars

(***************************************************************************)
(* SpecBounds: one call of a Bounds operation                              *)
(***************************************************************************)
MaxCoord == 4

\* even coordinates, so that every halving is exact
Coords == {c \in 0..MaxCoord : c % 2 = 0}

BoundsInputs == {Bounds(l, t, r, b) : l \in Coords, t \in Coords, r \in Coords, b \in Coords}

BoundsCall(op, self, other) == [op |-> op, self |-> self, other |-> other]

InitBounds ==
    /\ \/ \E b \in BoundsInputs, c \in BoundsInputs :
             arg = BoundsCall("normalized_within", b, c)
       \/ \E b \in BoundsInputs, c \in BoundsInputs :
             arg = BoundsCall("centered_within", b, c)
       \/ \E b \in BoundsInputs, x \in Coords, y \in Coords :
             arg = BoundsCall("centered_at", b, Vec2(x, y))
       \/ \E b \in BoundsInputs, x \in Coords, y \in Coords :
             arg = BoundsCall("translated", b, Vec2(x, y))
    /\ ret = <<>>
    /\ variables = EmptyVariableStorage
    /\ gtIdle /\ blIdle /\ toIdle /\ tsIdle

\* a call needs a container of non-zero size: the quotient by 0 is left out
NormalizedWithin ==
    /\ ret = <<>> /\ arg.op = "normalized_within"
    /\ width(arg.other) # 0 /\ height(arg.other) # 0
    /\ ret' = <<normalized_within(arg.self, arg.other)>>
    /\ UNCHANGED <<arg, gtVars, variables, blVars, toVars, tsVars>>

CenteredWithin ==
    /\ ret = <<>> /\ arg.op = "centered_within"
    /\ ret' = <<centered_within(arg.self, arg.other)>>
    /\ UNCHANGED <<arg, gtVars, variables, blVars, toVars, tsVars>>

CenteredAt ==
    /\ ret = <<>> /\ arg.op = "centered_at"
    /\ ret' = <<centered_at(arg.self, arg.other)>>
    /\ UNCHANGED <<arg, gtVars, variables, blVars, toVars, tsVars>>

Translated ==
    /\ ret = <<>> /\ arg.op = "translated"
    /\ ret' = <<translated(arg.self, arg.other.x, arg.other.y)>>
    /\ UNCHANGED <<arg, gtVars, variables, blVars, toVars, tsVars>>

NextBounds == NormalizedWithin \/ CenteredWithin \/ CenteredAt \/ Translated

SpecBounds == InitBounds /\ [][NextBounds]_vars

(***************************************************************************)
(* Claims about get_text                                                   *)
(***************************************************************************)
GetTextEnded == gt_pc \in {"done", "hang", "panic"}

NoOpenBrace(t) == \A i \in 1..Len(t) : t[i] # "{"

\* C1: a template that contains no '{' is returned unchanged, whatever the
\* variable storage: the call returns, and returns the template.
C1_PlainTemplateReturned ==
    (GetTextEnded /\ NoOpenBrace(template)) =>
        (gt_pc = "done" /\ result = template)

\* the braces of t form well-formed, non-nested {name} placeholders
RECURSIVE WellFormed(_)
WellFormed(t) ==
    IF t = <<>> THEN TRUE
    ELSE IF Head(t) = "}" THEN FALSE
    ELSE IF Head(t) = "{"
         THEN LET e == Find(t, "}")
              IN /\ e # -1
                 /\ NoOpenBrace(StrSlice(t, 1, e))
                 /\ WellFormed(StrFrom(t, e + 1))
         ELSE WellFormed(Tail(t))

HasPlaceholder(t) == \E i \in 1..Len(t) : t[i] = "{"

\* t with each {name} span replaced by the value bound to name (nothing when
\* name has no value), every other character kept
RECURSIVE Expanded(_, _)
Expanded(t, storage) ==
    IF t = <<>> THEN <<>>
    ELSE IF Head(t) = "{"
         THEN LET e == Find(t, "}")
                  v == get_value(storage, StrSlice(t, 1, e))
              IN (IF v = None THEN <<>> ELSE as_string(v))
                     \o Expanded(StrFrom(t, e + 1), storage)
         ELSE <<Head(t)>> \o Expanded(Tail(t), storage)

\* C2: for a template of well-formed placeholders, get_text returns the
\* template with each placeholder replaced by its value (or by nothing) and
\* all other characters kept in order.
C2_PlaceholdersReplaced ==
    (GetTextEnded /\ WellFormed(template) /\ HasPlaceholder(template)) =>
        (gt_pc = "done" /\ result = Expanded(template, variables))

\* C3: get_text terminates: every iteration of the scan loop makes progress,
\* leaving strictly less text after the scan position than there was.
C3_ScanLoopProgress ==
    [][(gt_pc = "scan" /\ gt_pc' \in {"scan", "hang"}) =>
          Len(result') - pos' < Len(result) - pos]_vars

(***************************************************************************)
(* Claims about build_lines                                                *)
(***************************************************************************)
BuildLinesEnded == bl_pc \in {"returned", "hang", "panic", "oob"}

\* C4: a Line is wider than max_width only when it holds exactly one token
\* that is wider than max_width by itself; so when no token is wider than
\* max_width, no Line is.
C4_WidthWithinMax ==
    /\ \A i \in 1..Len(lines) :
          lines[i].width > max_width =>
              (Len(pushed[i]) = 1 /\ pushed[i][1].width > max_width)
    /\ (\A i \in 1..Len(pushed) : \A k \in 1..Len(pushed[i]) :
            pushed[i][k].width <= max_width)
          => \A i \in 1..Len(lines) : lines[i].width <= max_width

\* build_lines has returned a Line wider than max_width and a Line of
\* several tokens that fits
C4_Witness ==
    /\ bl_pc = "returned"
    /\ \E i \in 1..Len(lines) : lines[i].width > max_width
    /\ \E i \in 1..Len(lines) : Len(pushed[i]) > 1 /\ lines[i].width <= max_width

\* the style index of each glyph of a Line, from the tokens pushed to it
RECURSIVE GlyphStyles(_)
GlyphStyles(tokens) ==
    IF tokens = <<>> THEN <<>>
    ELSE [k \in 1..Len(Head(tokens).word) |-> Head(tokens).style_index]
             \o GlyphStyles(Tail(tokens))

Transitions(ss) == Cardinality({k \in 1..(Len(ss) - 1) : ss[k] # ss[k + 1]})

\* C5: after any sequence of token appends the style ranges of every Line
\* are non-empty and contiguous from 0 to glyphs.len(), adjacent ranges differ
\* in style index, each glyph lies in a range of the style it was pushed
\* with, and there are at most (style transitions + 1) ranges.
C5_StyleRangesMerged ==
    \A i \in 1..Len(lines) :
        LET r == lines[i].style_ranges
            n == Len(r)
            gs == GlyphStyles(pushed[i])
        IN /\ Len(gs) = Len(lines[i].glyphs)
           /\ \A k \in 1..n : r[k].start < r[k].end
           /\ n = 0 => lines[i].glyphs = <<>>
           /\ n > 0 => (r[1].start = 0 /\ r[n].end = Len(lines[i].glyphs))
           /\ \A k \in 1..(n - 1) :
                 r[k].end = r[k + 1].start /\ r[k].style_index # r[k + 1].style_index
           /\ \A k \in 1..n : \A g \in (r[k].start + 1)..r[k].end :
                 gs[g] = r[k].style_index
           /\ n <= Transitions(gs) + 1

\* a Line holds two style ranges, one of them merged from several tokens
C5_Witness ==
    \E i \in 1..Len(lines) :
        /\ Len(lines[i].style_ranges) = 2
        /\ Len(pushed[i]) > 2

IsPlainWord(t) ==
    t # <<>> /\ \A i \in 1..Len(t) : t[i] \notin {"{", "}"} /\ ~IsAsciiWhitespace(t[i])

\* C6: for a single segment whose text is one plain word, build_lines
\* returns exactly one Line with exactly one StyleRange [0, n), whatever
\* max_width is.
C6_SingleWordSingleLine ==
    (/\ BuildLinesEnded
     /\ Len(text_segments) = 1
     /\ IsPlainWord(text_segments[1].template)
     /\ text_segments[1].style_id < Len(styles))
        => /\ bl_pc = "returned"
           /\ Len(lines) = 1
           /\ lines[1].glyphs = text_segments[1].template
           /\ lines[1].style_ranges =
                  <<[start |-> 0, end |-> Len(text_segments[1].template),
                     style_index |-> text_segments[1].style_id]>>

\* the text "cat dog" in one segment, with max_width at least the width of
\* "cat " and less than the width of "cat dog"
CatDogCase ==
    /\ Len(text_segments) = 1
    /\ text_segments[1].style_id < Len(styles)
    /\ get_text(text_segments[1].template, variables) = [outcome |-> "done", text |-> CatDog]
    /\ LET style == styles[text_segments[1].style_id + 1]
       IN /\ calculate_width(style, SubSeq(CatDog, 1, 4)).width <= max_width
          /\ max_width < calculate_width(style, CatDog).width

\* C7: a word or space token starts a new Line exactly when the width of the
\* current Line plus the width of the token exceeds max_width, and is
\* otherwise appended to the current Line, all earlier Lines staying as they
\* are; "cat dog" with max_width between "cat " and "cat dog" gives the two
\* Lines "cat " and "dog".
C7_GreedyWrap ==
    /\ [][(bl_pc = "word" /\ pushed' # pushed) =>
            LET word == Head(words)
                n == Len(lines)
                w == calculate_width(styles[text_segments[seg_i + 1].style_id + 1], word).width
            IN IF lines[n].width + w > max_width
               THEN /\ Len(lines') = n + 1
                    /\ SubSeq(lines', 1, n) = lines
                    /\ lines'[n + 1].glyphs = word
               ELSE /\ Len(lines') = n
                    /\ SubSeq(lines', 1, n - 1) = SubSeq(lines, 1, n - 1)
                    /\ lines'[n].glyphs = lines[n].glyphs \o word]_vars
    /\ []((bl_pc = "returned" /\ CatDogCase) =>
            [i \in 1..Len(lines) |-> lines[i].glyphs]
                = <<SubSeq(CatDog, 1, 4), SubSeq(CatDog, 5, 7)>>)

\* build_lines has wrapped "cat dog" between the space and "dog"
C7_Witness == bl_pc = "returned" /\ CatDogCase /\ Len(lines) = 2

\* C8: a call of build_lines with a segment whose style index is outside the
\* style slice always ends in the out-of-bounds failure: it never returns
\* Lines and never hangs.
C8_BadStyleIndexFails ==
    (/\ BuildLinesEnded
     /\ \E i \in 1..Len(text_segments) : ~(text_segments[i].style_id < Len(styles)))
        => bl_pc = "oob"

\* C29: for every character of the resolved text, those of code point 128
\* or above included, the glyph lookup of calculate_width uses an index
\* inside the 128 slots: with style indices inside the style slice,
\* build_lines makes no out-of-bounds access.
C29_GlyphLookupInTable ==
    (\A i \in 1..Len(text_segments) : text_segments[i].style_id < Len(styles)) =>
        bl_pc # "oob"

(***************************************************************************)
(* Claims about tesselate                                                  *)
(***************************************************************************)
ValidStyleIds ==
    \A i \in 1..Len(text_segments) : text_segments[i].style_id < Len(styles)

\* the style indices of the style ranges of the Lines
ReferencedStyles ==
    UNION {{lines[i].style_ranges[k].style_index : k \in 1..Len(lines[i].style_ranges)} :
              i \in 1..Len(lines)}

\* C9: when every segment's style index is inside the style slice, tesselate
\* makes no out-of-bounds access: once the buffers are allocated they hold an
\* entry for every style index of every style range.
C9_NoOutOfBounds ==
    ValidStyleIds =>
        /\ t_pc # "oob"
        /\ (t_pc \in {"walk", "returned"} =>
               \A s \in ReferencedStyles :
                   (s < Len(total_glyphs_per_style) /\ s < Len(vert_index_buffers)))

\* C10: the geometry tesselate returns holds exactly one (vertex list, index
\* list) pair for each style index the Lines reference, none missing.
C10_PairPerReferencedStyle ==
    t_pc = "returned" =>
        /\ \A s \in ReferencedStyles : s < Len(vert_index_buffers)
        /\ Len(vert_index_buffers) = Cardinality(ReferencedStyles)

\* the glyph the font of a style holds for a character
GlyphOf(style, ch) == Fonts[style.font].glyphs[CodePoint(ch)]

\* the visits whose glyph is of style s, is not whitespace and has both a
\* plane_bounds and an atlas_bounds
QuadVisits(s) ==
    LET vs == Visits(lines)
    IN {k \in 1..Len(vs) :
           /\ vs[k].style_index = s
           /\ ~IsAsciiWhitespace(vs[k].glyph)
           /\ GlyphOf(styles[s + 1], vs[k].glyph).plane_bounds.some
           /\ GlyphOf(styles[s + 1], vs[k].glyph).atlas_bounds.some}

\* the advances of the glyphs of a Line, each scaled by its style's size
RECURSIVE SumScaledAdvance(_)
SumScaledAdvance(vs) ==
    IF vs = <<>> THEN 0
    ELSE GlyphOf(styles[Head(vs).style_index + 1], Head(vs).glyph).advance
             * styles[Head(vs).style_index + 1].size
         + SumScaledAdvance(Tail(vs))

\* C11: in the geometry tesselate returns, the vertex list of every style s
\* holds 4*q vertices and its index list 6*q indices, q being the number of
\* non-whitespace characters of style s whose glyph has both bounds; and every
\* glyph of a Line, emitted or not, advances the horizontal cursor.
C11_QuadsPerVisibleGlyph ==
    /\ (t_pc = "returned" =>
           \A s \in ReferencedStyles :
               /\ s < Len(vert_index_buffers)
               /\ Len(vert_index_buffers[s + 1].vertices) = 4 * Cardinality(QuadVisits(s))
               /\ Len(vert_index_buffers[s + 1].indices) = 6 * Cardinality(QuadVisits(s)))
    /\ ((t_pc \in {"walk", "returned"} /\ line_i > 0) =>
           cursor_x = line_start_x
                        + SumScaledAdvance(RangeVisits(lines[line_i],
                                                       lines[line_i].style_ranges)))

\* C12: for every Line it walks, tesselate starts the horizontal cursor at 0
\* under Left, at (bounds.width() - line.width) / 2 under Center and at
\* bounds.width() - line.width under Right, from that Line's own width.
C12_CursorStartPerLine ==
    (t_pc \in {"walk", "returned"} /\ line_i > 0) =>
        /\ (h_align = "Left" => line_start_x = 0)
        /\ (h_align = "Center" =>
               2 * line_start_x = width(bounds) - lines[line_i].width)
        /\ (h_align = "Right" =>
               line_start_x + lines[line_i].width = width(bounds))

\* a second Line, wider than the first, has been walked under Center or Right
C12_Witness ==
    /\ t_pc \in {"walk", "returned"} /\ line_i > 1
    /\ h_align # "Left"
    /\ lines[line_i].width > lines[1].width
    /\ line_start_x # 0

\* the index the claim gives the j-th entry (1-based) of an index list
QuadIndex(j) == 4 * ((j - 1) \div 6) + <<0, 1, 2, 0, 2, 3>>[((j - 1) % 6) + 1]

StartY ==
    CASE v_align = "Top" -> bounds.top
      [] v_align = "Middle" -> (height(bounds) - SumHeights(lines)) \div 2
      [] v_align = "Bottom" -> bounds.bottom - SumHeights(lines)

\* C28: the vertical cursor descends by the height of each Line once per
\* Line, whatever the number of its style ranges: after k Lines it is the
\* start minus the heights of Lines 1..k, which is the bottom of the k-th
\* Line, and after all Lines the descent is total_line_height.
C28_DescentOncePerLine ==
    t_pc \in {"walk", "returned"} =>
        /\ cursor_y = StartY - SumHeights(SubSeq(lines, 1, line_i))
        /\ (line_i > 0 => line_bottom = StartY - SumHeights(SubSeq(lines, 1, line_i)))
        /\ (t_pc = "returned" => StartY - cursor_y = total_line_height)

(***************************************************************************)
(* Claims about the TextObject                                             *)
(***************************************************************************)
\* the builders and setters that always set the flag
Mutators ==
    {"with_bounds", "with_auto_line_break", "sized_to_fit", "with_h_align",
     "with_v_align", "with_variable", "with_text_segment"}

\* a step of a call of tesselate, from its entry to its return
TesselateStep == t_pc # "idle" \/ t_pc' # "idle"

\* C13: needs_update() is true right after construction; a mutator (a builder,
\* or set_variable with a name the storage knows) leaves it true; it goes from
\* true to false in a set_clean() step only, so it stays true until the next
\* set_clean(); and no step of tesselate changes it.
C13_DirtyFlag ==
    /\ dirty = TRUE
    /\ [][/\ arg'.op \in Mutators => dirty'
          /\ (arg'.op = "set_variable" /\ variables.kind = "Enum"
                /\ from_name(variables.names, arg'.name) # 0) => dirty'
          /\ (dirty /\ ~dirty') => (arg'.op = "set_clean" /\ ~TesselateStep)
          /\ arg'.op = "set_clean" => ~dirty'
          /\ TesselateStep => dirty' = dirty]_vars

\* tesselate has returned on an object that set_clean had cleaned
C13_Witness == arg.op = "tesselate" /\ t_pc = "idle" /\ ~dirty /\ ret = <<>>

\* C25: set_variable(name, v) with a name the storage does not recognise
\* changes nothing: the stored values, the segments, the layout configuration
\* and the dirty flag stay as they were, so a clean TextObject stays clean;
\* with a recognised name it stores v and sets dirty to true.
C25_SetVariableUnknownName ==
    [][arg'.op = "set_variable" =>
          IF variables.kind = "Enum" /\ from_name(variables.names, arg'.name) # 0
          THEN /\ get_value(variables', arg'.name) = arg'.value
               /\ dirty' = TRUE
               /\ UNCHANGED <<text_segments, auto_line_break, size_to_fit, h_align,
                              v_align, bounds, max_style_id>>
          ELSE UNCHANGED <<variables, text_segments, toVars>>]_vars

\* set_variable with an unknown name has been called on a clean TextObject
\* that holds a value under "b", and the object is still clean
C25_Witness ==
    /\ arg.op = "set_variable" /\ arg.name = Unknown
    /\ ~dirty
    /\ get_value(variables, <<"b">>) = StringValue(<<"W">>)

(***************************************************************************)
(* Claims about InterpolationValue                                         *)
(***************************************************************************)
DigitValue(ch) == CHOOSE d \in 0..9 : Digits[d + 1] = ch

RECURSIVE StringToNat(_)
StringToNat(s) ==
    IF s = <<>> THEN 0
    ELSE 10 * StringToNat(SubSeq(s, 1, Len(s) - 1)) + DigitValue(s[Len(s)])

Unsigned(s) == IF s # <<>> /\ s[1] = "-" THEN Tail(s) ELSE s

\* the digits in front of the decimal point
IntegerDigits(s) ==
    IF Find(Unsigned(s), ".") = -1 THEN Unsigned(s)
    ELSE StrSlice(Unsigned(s), 0, Find(Unsigned(s), "."))

\* the digits behind the decimal point
FractionDigits(s) ==
    IF Find(Unsigned(s), ".") = -1 THEN <<>>
    ELSE StrFrom(Unsigned(s), Find(Unsigned(s), ".") + 1)

\* the magnitude of a decimal numeral with up to two decimals, in hundredths
Hundredths(s) ==
    100 * StringToNat(IntegerDigits(s))
        + (IF Len(FractionDigits(s)) = 1 THEN 10 ELSE 1) * StringToNat(FractionDigits(s))

\* the magnitude of m thousandths rounded to the nearest hundredth
Rounded(m) ==
    LET a == IF m < 0 THEN -m ELSE m
    IN CHOOSE h \in ((a \div 10)..((a \div 10) + 1)) : 10 * h - a < 5 /\ a - 10 * h < 5

\* C14: Float(f).as_string() is the integer digits of f without a decimal
\* point when f has no fractional part; otherwise it is f rounded to two
\* decimals with the trailing zeros and then a trailing '.' stripped: it never
\* ends in '.', never in '0' behind a decimal point, and keeps every digit of
\* the integer part (2.0 "2", 3.0 "3", 2.5 "2.5", 3.14 "3.14", 3.10 "3.1").
C14_FloatAsString ==
    ret # <<>> =>
        LET m == arg.val
            out == ret[1]
        IN /\ m % 1000 = 0 =>
                 (out = IntToString(m \div 1000) /\ Find(out, ".") = -1)
           /\ m % 1000 # 0 =>
                 /\ out # <<>> /\ out[Len(out)] # "."
                 /\ (Find(out, ".") # -1 => out[Len(out)] # "0")
                 /\ Len(FractionDigits(out)) <= 2
                 /\ Hundredths(out) = Rounded(m)
                 /\ IntegerDigits(out) = NatToString(Rounded(m) \div 100)
                 /\ (out[1] = "-") = (m < 0)
           /\ (m = 2000 => out = <<"2">>)
           /\ (m = 3000 => out = <<"3">>)
           /\ (m = 2500 => out = <<"2", ".", "5">>)
           /\ (m = 3140 => out = <<"3", ".", "1", "4">>)
           /\ (m = 3100 => out = <<"3", ".", "1">>)

\* 10.001 has been rendered: "10.00" loses its decimals and keeps the 0 of 10
C14_Witness == ret # <<>> /\ arg.val = 10001 /\ ret[1] = <<"1", "0">>

(***************************************************************************)
(* Claims about VariableStorage                                            *)
(***************************************************************************)
\* name is one of the names the storage defines
Defined(storage, name) ==
    storage.kind = "Enum" /\ \E i \in 1..Len(storage.names) : storage.names[i] = name

\* C15: set_value_by_name(name, v) returns true exactly when name is a defined
\* variable name, and a get_value(name) that follows returns v exactly in that
\* case; no other name's value changes; an Empty storage returns false and
\* misses for every name; an Enum slot never set reads as absent.
C15_SetThenGet ==
    /\ \A n \in StorageNames : get_value(variables, n) = None
    /\ [][/\ arg'.op = "set_value_by_name" =>
                /\ ret'[1] = Defined(variables, arg'.name)
                /\ get_value(variables', arg'.name)
                       = IF Defined(variables, arg'.name) THEN arg'.value ELSE None
                /\ \A n \in StorageNames \ {arg'.name} :
                       get_value(variables', n) = get_value(variables, n)
          /\ (arg.op = "set_value_by_name" /\ arg'.op = "get_value"
                /\ arg'.name = arg.name) =>
                ret'[1] = IF Defined(variables, arg.name) THEN arg.value ELSE None
          /\ arg'.op = "get_value" => variables' = variables]_vars
    /\ [](variables.kind = "Empty" =>
            /\ (arg.op = "set_value_by_name" => ret[1] = FALSE)
            /\ (arg.op = "get_value" => ret[1] = None))

\* a value set under "b" has been read back while the slot of "a", never
\* set, reads as absent
C15_Witness ==
    /\ arg.op = "get_value" /\ arg.name = <<"b">> /\ ret = <<IntegerValue(42)>>
    /\ get_value(variables, <<"a">>) = None
    /\ get_value(variables, ScoreName) = BooleanValue(TRUE)

(***************************************************************************)
(* Claims about FontData                                                   *)
(***************************************************************************)
\* the slot holds the fields of the source glyph
SlotHolds(slot, glyph_data) ==
    /\ slot.some
    /\ slot.advance = glyph_data.advance
    /\ slot.plane_bounds = glyph_data.plane_bounds
    /\ slot.atlas_bounds = glyph_data.atlas_bounds

InSlots(glyph_data) == glyph_data.unicode < 128

\* C16: in a FontData that has loaded, each of the 128 slots is populated:
\* slot c holds the source glyph with unicode c when the source has one, else
\* a copy of the glyph of '?'; source glyphs with unicode >= 128 change no slot.
C16_AllSlotsPopulated ==
    (ret # <<>> /\ ret[1].ok) =>
        /\ DOMAIN ret[1].glyphs = 0..127
        /\ \A c \in 0..127 :
              IF \E i \in 1..Len(arg) : arg[i].unicode = c
              THEN \E i \in 1..Len(arg) :
                       arg[i].unicode = c /\ SlotHolds(ret[1].glyphs[c], arg[i])
              ELSE /\ ret[1].glyphs[c].some
                   /\ ret[1].glyphs[c] = ret[1].glyphs[CodePoint("?")]
        /\ ret[1] = deserialize_ascii_glyphs(SelectSeq(arg, InSlots))

\* a font has loaded from a source with '?', without 'a' and with a glyph of
\* unicode 191: the slot of 'a' holds the glyph of '?'
C16_Witness ==
    /\ ret # <<>> /\ ret[1].ok
    /\ \E i \in 1..Len(arg) : arg[i].unicode = 191
    /\ \A i \in 1..Len(arg) : arg[i].unicode # CodePoint("a")
    /\ ret[1].glyphs[CodePoint("a")] = ret[1].glyphs[CodePoint("?")]
    /\ ret[1].glyphs[CodePoint("a")].advance = 4

\* C17: loading a font whose source holds no glyph for '?' (unicode 63) ends
\* in the fatal error and yields no FontData; a source that holds one never
\* fails for a missing glyph.
C17_QuestionMarkRequired ==
    ret # <<>> =>
        (ret[1].ok <=> \E i \in 1..Len(arg) : arg[i].unicode = CodePoint("?"))

\* a load has failed on a source with glyphs but none for '?'
C17_Witness ==
    /\ ret # <<>> /\ ~ret[1].ok
    /\ Len(arg) = MaxGlyphs
    /\ \E i \in 1..Len(arg) : arg[i].unicode = CodePoint("a")

(***************************************************************************)
(* Claims about FontStyle                                                  *)
(***************************************************************************)
\* C18: the width calculate_width returns for a token is the sum over its
\* characters of glyph.advance * size of its style: the width under size s
\* is s times the width under size 1.
C18_WidthScalesWithSize ==
    \A i \in 1..Len(pushed) : \A k \in 1..Len(pushed[i]) :
        LET style == styles[pushed[i][k].style_index + 1]
        IN pushed[i][k].width
               = style.size * SumAdvance(Fonts[style.font], pushed[i][k].word)

(***************************************************************************)
(* Further claims about get_text                                           *)
(***************************************************************************)
\* the positions (1-based) of the '{' that no '}' follows
Unterminated(t) ==
    {k \in 1..Len(t) : t[k] = "{" /\ \A j \in (k + 1)..Len(t) : t[j] # "}"}

\* the last n characters of s
Suffix(s, n) == SubSeq(s, Len(s) - n + 1, Len(s))

\* C19: a '{' with no '}' after it is no placeholder: whatever follows it,
\* get_text raises no error and returns a text that ends with that '{' and
\* the characters after it, unchanged.
C19_UnterminatedBraceLiteral ==
    (GetTextEnded /\ Unterminated(template) # {}) =>
        LET k == CHOOSE k \in Unterminated(template) :
                     \A j \in Unterminated(template) : k <= j
            n == Len(template) - k + 1
        IN /\ gt_pc = "done"
           /\ Len(result) >= n
           /\ Suffix(result, n) = Suffix(template, n)

\* the value is a String that holds a well-formed {name} span
HoldsSpan(v) == v.tag = "String" /\ WellFormed(v.val) /\ HasPlaceholder(v.val)

\* the template is {a} followed by nothing or by text that ends a placeholder
SpanValueCase ==
    /\ HoldsSpan(get_value(variables, <<"a">>))
    /\ Len(template) >= Len(PlaceA)
    /\ SubSeq(template, 1, Len(PlaceA)) = PlaceA
    /\ WellFormed(StrFrom(template, Len(PlaceA)))
    /\ (Len(template) > Len(PlaceA) => template[Len(template)] = "}")

\* C20: replacement text is never rescanned: a value that holds a {name}
\* span appears verbatim in the result, unexpanded, also when further
\* placeholders follow in the template (these are replaced by their values).
C20_ReplacementNotRescanned ==
    (GetTextEnded /\ SpanValueCase) =>
        /\ gt_pc = "done"
        /\ result = as_string(get_value(variables, <<"a">>))
                        \o Expanded(StrFrom(template, Len(PlaceA)), variables)

(***************************************************************************)
(* Claims about Bounds                                                     *)
(***************************************************************************)
Between(x, a, b) == (a <= x /\ x <= b) \/ (b <= x /\ x <= a)

\* r lies inside c on both axes
Inside(r, c) ==
    /\ Between(r.left, c.left, c.right) /\ Between(r.right, c.left, c.right)
    /\ Between(r.top, c.top, c.bottom) /\ Between(r.bottom, c.top, c.bottom)

\* 0 <= num / den <= 1
InUnit(q) ==
    IF q.den > 0 THEN 0 <= q.num /\ q.num <= q.den
    ELSE q.den <= q.num /\ q.num <= 0

\* C21: for a Bounds r inside a container c of non-zero width and height,
\* r.normalized_within(c) has its four coordinates in [0,1], and
\* c.normalized_within(c) is the unit square.
C21_NormalizedInUnitSquare ==
    (ret # <<>> /\ arg.op = "normalized_within" /\ Inside(arg.self, arg.other)) =>
        /\ InUnit(ret[1].left) /\ InUnit(ret[1].right)
        /\ InUnit(ret[1].top) /\ InUnit(ret[1].bottom)
        /\ (arg.self = arg.other =>
               /\ ret[1].left.num = 0 /\ ret[1].right.num = ret[1].right.den
               /\ {ret[1].top.num, ret[1].bottom.num} = {0, ret[1].top.den})

\* C30: re-positioning keeps the size: translated, centered_at and
\* centered_within return a Bounds of the width and height of the receiver.
C30_RepositionKeepsSize ==
    (ret # <<>> /\ arg.op \in {"translated", "centered_at", "centered_within"}) =>
        /\ width(ret[1]) = width(arg.self)
        /\ height(ret[1]) = height(arg.self)

\* C26: every search in get_text is made at or after the scan position: an
\* iteration never alters the part of the result before the scan position
\* and never moves the position back, so the text of an earlier substitution
\* is still there in the final result.
C26_ScannedPrefixKept ==
    [][gt_pc = "scan" =>
          /\ pos' >= pos
          /\ Len(result') >= pos
          /\ SubSeq(result', 1, pos) = SubSeq(result, 1, pos)]_vars

(***************************************************************************)
(* Further claims about build_lines                                        *)
(***************************************************************************)
\* the words of the tokens, one after the other
RECURSIVE JoinWords(_)
JoinWords(tokens) ==
    IF tokens = <<>> THEN <<>> ELSE Head(tokens).word \o JoinWords(Tail(tokens))

\* C22: a word token is never split across Lines: the glyphs of every Line
\* are the whole tokens pushed to it, and a token wider than max_width is the
\* only token of its Line, the token after it starting a new Line.
C22_WordNeverSplit ==
    /\ Len(pushed) = Len(lines)
    /\ \A i \in 1..Len(lines) :
          /\ lines[i].glyphs = JoinWords(pushed[i])
          /\ \A k \in 1..Len(pushed[i]) :
                pushed[i][k].width > max_width => Len(pushed[i]) = 1

\* build_lines has returned with a word of several characters, wider than
\* max_width, alone on a Line that another Line follows
C22_Witness ==
    /\ bl_pc = "returned"
    /\ \E i \in 1..(Len(lines) - 1) :
          /\ Len(pushed[i]) = 1
          /\ pushed[i][1].width > max_width
          /\ Len(pushed[i][1].word) > 1
          /\ lines[i + 1].glyphs # <<>>

\* C23: a line-break token leaves the number of Lines and the glyphs, style
\* ranges and width of every Line unchanged; it only raises the height of the
\* current Line to at least the line height of the active style, never lowers it.
C23_LineBreakOnlyRaisesHeight ==
    [][(bl_pc = "word" /\ IsLineBreak(Head(words))) =>
          LET n == Len(lines)
              lh == line_height(styles[text_segments[seg_i + 1].style_id + 1])
          IN /\ Len(lines') = n
             /\ \A i \in 1..n :
                   /\ lines'[i].glyphs = lines[i].glyphs
                   /\ lines'[i].style_ranges = lines[i].style_ranges
                   /\ lines'[i].width = lines[i].width
             /\ \A i \in 1..(n - 1) : lines'[i].height = lines[i].height
             /\ lines'[n].height >= lines[n].height
             /\ lines'[n].height >= lh
             /\ lines'[n].height \in {lines[n].height, lh}]_vars

\* build_lines has returned, and a line break has given the first Line, which
\* holds no glyph, a height
C23_Witness ==
    /\ bl_pc = "returned"
    /\ lines[1].glyphs = <<>> /\ lines[1].height > 0
    /\ Len(lines) > 1

\* the largest number of a set of heights, 0 for the empty set
Largest(S) == IF S = {} THEN 0 ELSE CHOOSE m \in S : \A x \in S : x <= m

\* the line heights of the styles of the style ranges of a Line
RangeHeights(line) ==
    {line_height(styles[line.style_ranges[k].style_index + 1]) :
        k \in 1..Len(line.style_ranges)}

\* the line heights of the styles of the line-break tokens of the i-th Line
BreakHeights(i) == {line_height(styles[breaks[i][k] + 1]) : k \in 1..Len(breaks[i])}

\* C24 as stated: every Line build_lines returns has the height of the
\* largest line_height among the styles of its style ranges, and height 0
\* when it has no style range.
C24_HeightIsMaxOfRangeStyles ==
    bl_pc = "returned" =>
        \A i \in 1..Len(lines) : lines[i].height = Largest(RangeHeights(lines[i]))

\* C24 amended: the height of every Line is the largest line_height among the
\* styles of its style ranges and the styles of the line-break tokens
\* processed while it was the last Line; it is at least the line_height of
\* every style with glyphs on it, and 0 when the Line has neither.
C24_HeightIsMaxOfStylesAndBreaks ==
    /\ Len(breaks) = Len(lines)
    /\ \A i \in 1..Len(lines) :
          /\ lines[i].height = Largest(RangeHeights(lines[i]) \cup BreakHeights(i))
          /\ \A h \in RangeHeights(lines[i]) : lines[i].height >= h

\* build_lines has returned a Line that holds glyphs and whose height comes
\* from the taller style of a line break
C24_Witness ==
    /\ bl_pc = "returned"
    /\ \E i \in 1..Len(lines) :
          /\ lines[i].style_ranges # <<>> /\ breaks[i] # <<>>
          /\ lines[i].height > Largest(RangeHeights(lines[i]))

====
